---- MODULE Spec2Model ----
(***************************************************************************)
(* Model of the training driver (src/.ipynb_checkpoints/train-checkpoint.py)*)
(* and of the focal loss (src/losses.py).                                   *)
(*                                                                          *)
(* Three specifications share one list of variables:                        *)
(*   Spec       the epoch loop of train()                                   *)
(*   SpecValid  valid_epoch() and validate(), batch by batch                *)
(*   SpecLoss   FocalLoss.forward(), in fixed-point arithmetic              *)
(***************************************************************************)
EXTENDS Integers, Sequences, FiniteSets, TLC

\* ------------------------------------------------------------------ bounds
MaxEpochs == 3
MaxBatches == 1
MaxValidBatches == 2
MaxLen == 2

\* Validation metrics the opaque scoring callable may return.
Metrics == {-1, 0, 1, 2}
\* Learning rates (indices of distinct values) a scheduler may set.
LearningRates == {1, 2}

VARIABLES
    \* ---- train(): configuration (config.*, never written by the loop)
    n_epochs, n_batches, is_cosine, use_qual, criterion,
    \* ---- train(): program state
    pc, epoch, batch, params, mode, lr, metric, max_score, tmp_lr,
    \* ---- train(): the file system and the collaborators' call records
    files, log, sched_calls,
    \* ---- train(): history (what happened, for the properties)
    writes, metrics, scored, lr_used, train_calls, prev_max, err_at,
    \* ---- valid_epoch()
    v_pc, v_loader, v_i, preds0, true0, v_call, v_ret,
    \* ---- FocalLoss.forward()
    f_pc, gamma, f_dim, logit, target, f_loss, f_out

trainVars == <<n_epochs, n_batches, is_cosine, pc, epoch, batch, params, lr,
               metric, max_score, tmp_lr, files, log, sched_calls, writes,
               metrics, scored, lr_used, train_calls, prev_max, err_at>>
sharedVars == <<use_qual, criterion, mode>>
validVars == <<v_pc, v_loader, v_i, preds0, true0, v_call, v_ret>>
lossVars == <<f_pc, gamma, f_dim, logit, target, f_loss, f_out>>
vars == <<trainVars, sharedVars, validVars, lossVars>>

\* ------------------------------------------------------------ file system
\* f'{epoch}.pth'
EpochPath(e) == ToString(e) \o ".pth"
BestPath == "best.pth"
Paths == {EpochPath(e) : e \in 0..(MaxEpochs - 1)} \cup {BestPath}

Absent == [kind |-> "absent"]
\* A file torch.save opened and did not finish.
Partial == [kind |-> "partial"]
\* {'st_d': model.state_dict()}
Checkpoint(p) == [kind |-> "ckpt", st_d |-> p]


\* ------------------------------------------------- fixed-point arithmetic
\* Real numbers (float tensors) are integers in units of 1/Scale.
Scale == 1000

\* a * b on fixed-point numbers.
Mul(a, b) == (a * b) \div Scale

RECURSIVE ExpSeries(_, _, _)
\* The Taylor series of e^x for 0 <= x <= 1: the terms from the k-th on.
ExpSeries(x, k, term) ==
    IF term = 0 THEN 0
    ELSE term + ExpSeries(x, k + 1, (term * x) \div (Scale * k))

\* e^x for 0 <= x <= 1.
ExpFrac(x) == ExpSeries(x, 1, Scale)

RECURSIVE ExpPos(_)
\* e^x for 0 <= x < 7.
ExpPos(x) ==
    IF x > Scale THEN Mul(ExpPos(x - Scale), ExpFrac(Scale)) ELSE ExpFrac(x)

\* tensor.exp() for an argument -x <= 0; below e^-7 the result is 0 at this
\* resolution.
ExpNeg(x) ==
    IF x >= 7 * Scale THEN 0 ELSE (Scale * Scale) \div ExpPos(x)

RECURSIVE LnSearch(_, _, _)
\* The largest y in lo..hi with e^y <= x (e^lo <= x).
LnSearch(x, lo, hi) ==
    IF lo >= hi THEN lo
    ELSE LET mid == (lo + hi + 1) \div 2
         IN  IF ExpFrac(mid) <= x THEN LnSearch(x, mid, hi)
             ELSE LnSearch(x, lo, mid - 1)

\* tensor.log() for 1 <= x <= e.
Ln(x) == LnSearch(x, 0, Scale)

\* ------------------------------------------------------------ train(): Init
\* Mutant: the best score starts below every metric of interest.
InitialMaxScoreNegative == 0 - 1

\* The state before the first iteration: model.to(device), the optimizer and
\* the scheduler are built, max_score = 0, the experiment directory is empty.
InitialMaxScore == 0

TrainInit ==
    /\ n_epochs \in 0..MaxEpochs
    /\ n_batches \in 0..MaxBatches
    /\ is_cosine \in BOOLEAN
    /\ use_qual \in BOOLEAN
    /\ criterion \in {"CrossEntropyLoss", "BCELoss"}
    /\ pc = "loop"
    /\ epoch = 0
    /\ batch = 0
    /\ params = 0
    /\ mode = "train"
    /\ lr \in LearningRates
    /\ metric = 0
    /\ max_score = InitialMaxScore
    /\ prev_max = InitialMaxScore
    /\ tmp_lr = 0
    /\ files = [p \in Paths |-> Absent]
    /\ log = <<>>
    /\ sched_calls = <<>>
    /\ writes = <<>>
    /\ metrics = <<>>
    /\ scored = <<>>
    /\ lr_used = <<>>
    /\ train_calls = 0
    /\ err_at = "none"

\* Variables of the other two specifications, parked.
ValidIdle ==
    /\ v_pc = "idle"
    /\ v_loader = <<>>
    /\ v_i = 0
    /\ preds0 = <<>>
    /\ true0 = <<>>
    /\ v_call = <<>>
    /\ v_ret = 0

LossIdle ==
    /\ f_pc = "idle"
    /\ gamma = 0
    /\ f_dim = 1
    /\ logit = <<>>
    /\ target = <<>>
    /\ f_loss = <<>>
    /\ f_out = [kind |-> "none"]

Init == TrainInit /\ ValidIdle /\ LossIdle

\* --------------------------------------------------------- train(): steps
\* Mutant: the loop runs one iteration too many.
LoopContinuesOffByOne(e, n) == e <= n

\* for epoch in range(config.n_epochs)
LoopContinues(e, n) == e < n

\* Mutant: a tie counts as an improvement.
ImprovedOrTie(m, best) == m >= best

\* if metric > max_score
Improved(m, best) == m > best

\* Mutant: every scheduler is stepped with the metric.
SchedulerArgsAlwaysMetric(cos, m) == <<m>>

\* scheduler.step() for CosineAnnealingLR, scheduler.step(metric) otherwise:
\* the argument list of the call.
SchedulerArgs(cos, m) == IF cos THEN <<>> ELSE <<m>>

\* optimizer.step(): the parameters become a new version.
OptimizerStep(p) == p + 1

\* Mutant: the line carries the learning rate as it is when the line is written.
LogLineCurrentLr == <<epoch, metric, lr>>

\* write2log(path, epoch, metric, tmp_lr): the line's fields.
LogLine == <<epoch, metric, tmp_lr>>

LoopHead ==
    /\ pc = "loop"
    /\ IF LoopContinues(epoch, n_epochs)
         THEN /\ pc' = "train_epoch"
              /\ prev_max' = max_score
         ELSE /\ pc' = "done"
              /\ UNCHANGED prev_max
    /\ UNCHANGED <<n_epochs, n_batches, is_cosine, epoch, batch, params, lr,
                   metric, max_score, tmp_lr, files, log, sched_calls, writes,
                   metrics, scored, lr_used, train_calls, err_at>>
    /\ UNCHANGED <<sharedVars, validVars, lossVars>>

\* train_epoch: model.train(); model.to(device); the loop over the loader starts.
TrainEpochBegin ==
    /\ pc = "train_epoch"
    /\ mode' = "train"
    /\ batch' = 0
    /\ train_calls' = train_calls + 1
    /\ pc' = "train_batch"
    /\ UNCHANGED <<n_epochs, n_batches, is_cosine, epoch, params, lr, metric,
                   max_score, tmp_lr, files, log, sched_calls, writes, metrics,
                   scored, lr_used, prev_max, err_at>>
    /\ UNCHANGED <<use_qual, criterion, validVars, lossVars>>

\* train_epoch: one batch: zero_grad, forward, loss, backward, optimizer.step().
TrainBatch ==
    /\ pc = "train_batch"
    /\ batch < n_batches
    /\ params' = OptimizerStep(params)
    /\ batch' = batch + 1
    /\ UNCHANGED <<n_epochs, n_batches, is_cosine, pc, epoch, lr, metric,
                   max_score, tmp_lr, files, log, sched_calls, writes, metrics,
                   scored, lr_used, train_calls, prev_max, err_at>>
    /\ UNCHANGED <<sharedVars, validVars, lossVars>>

\* train_epoch: the loader is exhausted, the call returns.
TrainEpochReturn ==
    /\ pc = "train_batch"
    /\ batch = n_batches
    /\ lr_used' = Append(lr_used, lr)
    /\ pc' = "valid_epoch"
    /\ UNCHANGED <<n_epochs, n_batches, is_cosine, epoch, batch, params, lr,
                   metric, max_score, tmp_lr, files, log, sched_calls, writes,
                   metrics, scored, train_calls, prev_max, err_at>>
    /\ UNCHANGED <<sharedVars, validVars, lossVars>>

\* Mutant: validation runs an optimizer step (the parameters it scored are
\* no longer the ones the model holds afterwards).
ValidEpochTraining ==
    /\ pc = "valid_epoch"
    /\ mode' = "eval"
    /\ \E m \in Metrics :
          /\ metric' = m
          /\ metrics' = Append(metrics, m)
    /\ scored' = Append(scored, params)
    /\ params' = params + 1
    /\ pc' = "read_lr"
    /\ UNCHANGED <<n_epochs, n_batches, is_cosine, epoch, batch, lr,
                   max_score, tmp_lr, files, log, sched_calls, writes, lr_used,
                   train_calls, prev_max, err_at>>
    /\ UNCHANGED <<use_qual, criterion, validVars, lossVars>>

\* metric = valid_epoch(...): model.eval(), no gradient, the callable's result.
ValidEpoch ==
    /\ pc = "valid_epoch"
    /\ mode' = "eval"
    /\ \E m \in Metrics :
          /\ metric' = m
          /\ metrics' = Append(metrics, m)
    /\ scored' = Append(scored, params)
    /\ pc' = "read_lr"
    /\ UNCHANGED <<n_epochs, n_batches, is_cosine, epoch, batch, params, lr,
                   max_score, tmp_lr, files, log, sched_calls, writes, lr_used,
                   train_calls, prev_max, err_at>>
    /\ UNCHANGED <<use_qual, criterion, validVars, lossVars>>

\* tmp_lr = optimizer.state_dict()['param_groups'][0]['lr']
ReadLr ==
    /\ pc = "read_lr"
    /\ tmp_lr' = lr
    /\ pc' = "sched_step"
    /\ UNCHANGED <<n_epochs, n_batches, is_cosine, epoch, batch, params, lr,
                   metric, max_score, files, log, sched_calls, writes, metrics,
                   scored, lr_used, train_calls, prev_max, err_at>>
    /\ UNCHANGED <<sharedVars, validVars, lossVars>>

\* scheduler.step() / scheduler.step(metric): the scheduler sets the
\* optimizer's learning rate to a value of its own choosing.
SchedulerStep ==
    /\ pc = "sched_step"
    /\ sched_calls' = Append(sched_calls,
                             [epoch |-> epoch, args |-> SchedulerArgs(is_cosine, metric)])
    /\ lr' \in LearningRates
    /\ pc' = "save_epoch"
    /\ UNCHANGED <<n_epochs, n_batches, is_cosine, epoch, batch, params,
                   metric, max_score, tmp_lr, files, log, writes, metrics,
                   scored, lr_used, train_calls, prev_max, err_at>>
    /\ UNCHANGED <<sharedVars, validVars, lossVars>>

\* torch.save({'st_d': model.state_dict()}, f'{epoch}.pth')
SaveEpoch ==
    /\ pc = "save_epoch"
    /\ files' = [files EXCEPT ![EpochPath(epoch)] = Checkpoint(params)]
    /\ writes' = Append(writes, [path |-> EpochPath(epoch), epoch |-> epoch])
    /\ pc' = "check_best"
    /\ UNCHANGED <<n_epochs, n_batches, is_cosine, epoch, batch, params, lr,
                   metric, max_score, tmp_lr, log, sched_calls, metrics,
                   scored, lr_used, train_calls, prev_max, err_at>>
    /\ UNCHANGED <<sharedVars, validVars, lossVars>>

\* if metric > max_score: max_score = metric; model.eval()
CheckBest ==
    /\ pc = "check_best"
    /\ IF Improved(metric, max_score)
         THEN /\ max_score' = metric
              /\ mode' = "eval"
              /\ pc' = "save_best"
         ELSE /\ pc' = "write_log"
              /\ UNCHANGED <<max_score, mode>>
    /\ UNCHANGED <<n_epochs, n_batches, is_cosine, epoch, batch, params, lr,
                   metric, tmp_lr, files, log, sched_calls, writes, metrics,
                   scored, lr_used, train_calls, prev_max, err_at>>
    /\ UNCHANGED <<use_qual, criterion, validVars, lossVars>>

\* torch.save({'st_d': model.state_dict()}, 'best.pth')
SaveBest ==
    /\ pc = "save_best"
    /\ files' = [files EXCEPT ![BestPath] = Checkpoint(params)]
    /\ writes' = Append(writes, [path |-> BestPath, epoch |-> epoch])
    /\ pc' = "write_log"
    /\ UNCHANGED <<n_epochs, n_batches, is_cosine, epoch, batch, params, lr,
                   metric, max_score, tmp_lr, log, sched_calls, metrics,
                   scored, lr_used, train_calls, prev_max, err_at>>
    /\ UNCHANGED <<sharedVars, validVars, lossVars>>

\* write2log(...), the end of the loop body: range() yields the next epoch.
WriteLog ==
    /\ pc = "write_log"
    /\ log' = Append(log, LogLine)
    /\ epoch' = epoch + 1
    /\ pc' = "loop"
    /\ UNCHANGED <<n_epochs, n_batches, is_cosine, batch, params, lr, metric,
                   max_score, tmp_lr, files, sched_calls, writes, metrics,
                   scored, lr_used, train_calls, prev_max, err_at>>
    /\ UNCHANGED <<sharedVars, validVars, lossVars>>

\* The steps of the loop body; any of them may raise.
BodySteps == {"train_epoch", "train_batch", "valid_epoch", "read_lr",
              "sched_step", "save_epoch", "check_best", "save_best", "write_log"}

\* The file a step was writing when it raised ("" when it writes none).
WritingPath(p, e) ==
    IF p = "save_epoch" THEN EpochPath(e)
    ELSE IF p = "save_best" THEN BestPath
    ELSE ""

\* Mutant: the error is caught and the epoch is run again.
RaiseAndRetry ==
    /\ pc \in BodySteps
    /\ err_at' = pc
    /\ pc' = "train_epoch"
    /\ UNCHANGED <<n_epochs, n_batches, is_cosine, epoch, batch, params, lr,
                   metric, max_score, tmp_lr, files, log, sched_calls, writes,
                   metrics, scored, lr_used, train_calls, prev_max>>
    /\ UNCHANGED <<sharedVars, validVars, lossVars>>

\* An error raised in the loop body: train() has no try/except, the error
\* leaves the function. A torch.save that raised may have left its file
\* untouched or partly written.
Raise ==
    /\ pc \in BodySteps
    /\ err_at' = pc
    /\ pc' = "aborted"
    /\ IF WritingPath(pc, epoch) = ""
         THEN UNCHANGED files
         ELSE \/ UNCHANGED files
              \/ files' = [files EXCEPT ![WritingPath(pc, epoch)] = Partial]
    /\ UNCHANGED <<n_epochs, n_batches, is_cosine, epoch, batch, params, lr,
                   metric, max_score, tmp_lr, log, sched_calls, writes,
                   metrics, scored, lr_used, train_calls, prev_max>>
    /\ UNCHANGED <<sharedVars, validVars, lossVars>>

Next ==
    \/ LoopHead
    \/ TrainEpochBegin
    \/ TrainBatch
    \/ TrainEpochReturn
    \/ ValidEpoch
    \/ ReadLr
    \/ SchedulerStep
    \/ SaveEpoch
    \/ CheckBest
    \/ SaveBest
    \/ WriteLog
    \/ Raise

Spec == Init /\ [][Next]_vars

\* ------------------------------------------------- train(): the properties
RECURSIVE MaxOf(_, _)
\* The largest of 0 and the first n elements of s.
MaxOf(s, n) ==
    IF n = 0 THEN 0
    ELSE LET r == MaxOf(s, n - 1) IN IF s[n] > r THEN s[n] ELSE r

\* The number of torch.save calls that completed on path p in epoch e.
NumWrites(p, e) ==
    Cardinality({i \in DOMAIN writes : writes[i].path = p /\ writes[i].epoch = e})

NumberedWrites == {i \in DOMAIN writes : writes[i].path # BestPath}

IsCheckpoint(p) == files[p].kind = "ckpt"

\* The epoch of the newest complete numbered checkpoint on disk; -1 when none.
LatestComplete ==
    LET have == {e \in 0..(MaxEpochs - 1) : IsCheckpoint(EpochPath(e))}
    IN  IF have = {} THEN -1 ELSE CHOOSE e \in have : \A o \in have : o <= e

\* The epoch whose parameters the last completed write of best.pth saved.
LastBestEpoch ==
    LET idx == {i \in DOMAIN writes : writes[i].path = BestPath}
    IN  writes[CHOOSE i \in idx : \A j \in idx : j <= i].epoch

\* The first epoch whose metric equals max_score.
EarliestBest ==
    CHOOSE e \in 0..(Len(metrics) - 1) :
        /\ metrics[e + 1] = max_score
        /\ \A o \in 0..(e - 1) : metrics[o + 1] # max_score

\* C1: a run that raises nothing ends after exactly n_epochs iterations, with
\* one numbered checkpoint written per epoch index 0..n_epochs-1 and no other,
\* at most one write of best.pth per epoch, and n_epochs log lines.
C1_ExactlyEEpochs ==
    /\ train_calls <= n_epochs
    /\ Len(log) <= n_epochs
    /\ pc = "done" =>
        /\ epoch = n_epochs
        /\ train_calls = n_epochs
        /\ Len(metrics) = n_epochs
        /\ Cardinality(NumberedWrites) = n_epochs
        /\ \A e \in 0..(n_epochs - 1) :
              /\ NumWrites(EpochPath(e), e) = 1
              /\ IsCheckpoint(EpochPath(e))
              /\ NumWrites(BestPath, e) <= 1
        /\ \A e \in n_epochs..(MaxEpochs - 1) : files[EpochPath(e)] = Absent
        /\ Len(log) = n_epochs

\* C1 witness: a finished run of two or more epochs, best.pth written in epoch 0 and not in epoch 1.
C1_Witness ==
    /\ pc = "done"
    /\ n_epochs >= 2
    /\ NumWrites(BestPath, 0) = 1
    /\ NumWrites(BestPath, 1) = 0

\* C2: in every epoch best.pth is written exactly when the epoch's metric is
\* strictly greater than max_score as it was when the epoch began; max_score
\* starts at 0 and changes only then, to that metric; a tie changes nothing.
C2_BestIffStrictlyGreater ==
    /\ Len(metrics) = 0 => max_score = 0 /\ prev_max = 0
    /\ pc \in {"train_epoch", "train_batch", "valid_epoch", "read_lr",
               "sched_step", "save_epoch", "check_best"} =>
          /\ max_score = prev_max
          /\ NumWrites(BestPath, epoch) = 0
    /\ pc = "save_best" =>
          /\ metric > prev_max
          /\ max_score = metric
          /\ NumWrites(BestPath, epoch) = 0
    /\ pc = "write_log" =>
          /\ (NumWrites(BestPath, epoch) = 1) <=> (metric > prev_max)
          /\ NumWrites(BestPath, epoch) <= 1
          /\ max_score = IF metric > prev_max THEN metric ELSE prev_max

\* C2 witness: an epoch past the first whose metric ties a positive max_score, best.pth not written.
C2_Witness ==
    /\ pc = "write_log"
    /\ epoch >= 1
    /\ metric = prev_max
    /\ metric > 0
    /\ NumWrites(BestPath, epoch) = 0

\* C3: the scheduler is stepped once per epoch, after that epoch's metric is
\* known: with no argument when it is a CosineAnnealingLR, with the metric
\* as its only argument otherwise.
C3_SchedulerDispatch ==
    /\ Len(sched_calls) <= Len(metrics)
    /\ err_at = "none" =>
          Len(sched_calls) =
              IF pc \in {"save_epoch", "check_best", "save_best", "write_log"}
                THEN epoch + 1 ELSE epoch
    /\ \A i \in DOMAIN sched_calls :
          /\ sched_calls[i].epoch = i - 1
          /\ sched_calls[i].args = IF is_cosine THEN <<>> ELSE <<metrics[i]>>

\* C3 witness: a metric-driven scheduler stepped in two epochs with different metrics.
C3_Witness ==
    /\ Len(sched_calls) >= 2
    /\ ~is_cosine
    /\ sched_calls[1].args # sched_calls[2].args

\* C5 as claimed: whenever an error is raised in epoch k, the newest numbered
\* checkpoint on disk is that of epoch k-1.
C5_Original_LatestIsPrevious ==
    err_at # "none" => LatestComplete = epoch - 1

\* C5 as amended: an error ends the run at once, nothing is run again; the
\* newest complete numbered checkpoint is that of epoch k-1 when the error
\* came before the numbered write of epoch k finished, and that of epoch k
\* when it came after it (the best.pth comparison and write, the log write).
C5_AbortKeepsCheckpoint ==
    /\ [](err_at # "none" =>
            /\ pc = "aborted"
            /\ train_calls <= epoch + 1
            /\ Len(log) = epoch
            /\ LatestComplete =
                  IF err_at \in {"check_best", "save_best", "write_log"}
                    THEN epoch ELSE epoch - 1)
    /\ [][err_at = "none"]_vars

\* C5 witness: the log write of epoch 1 raised; 1.pth is the newest complete checkpoint.
C5_Witness ==
    /\ pc = "aborted"
    /\ err_at = "write_log"
    /\ epoch = 1
    /\ LatestComplete = 1

\* C6: the log line of epoch k is (k, the metric of epoch k, the learning
\* rate train_epoch ran with in epoch k), and it is written only after the
\* numbered checkpoint of epoch k, and best.pth when the epoch improved.
C6_LogLine ==
    \A i \in DOMAIN log :
        /\ log[i] = <<i - 1, metrics[i], lr_used[i]>>
        /\ NumWrites(EpochPath(i - 1), i - 1) = 1
        /\ metrics[i] > MaxOf(metrics, i - 1) => NumWrites(BestPath, i - 1) = 1

\* C6 witness: epoch 0 is logged with a learning rate the scheduler has since changed, best.pth written.
C6_Witness ==
    /\ pc = "loop"
    /\ epoch = 1
    /\ Len(log) = 1
    /\ log[1][3] # lr
    /\ NumWrites(BestPath, 0) = 1

\* C7 as claimed: after two epochs with non-negative metrics, 0.pth, 1.pth and
\* best.pth exist and the log has two lines.
C7_Original_BestExists ==
    (/\ pc = "done"
     /\ n_epochs = 2
     /\ ~use_qual
     /\ criterion = "CrossEntropyLoss"
     /\ \A i \in DOMAIN metrics : metrics[i] >= 0) =>
        /\ IsCheckpoint(EpochPath(0))
        /\ IsCheckpoint(EpochPath(1))
        /\ IsCheckpoint(BestPath)
        /\ Len(log) = 2

\* C7 as amended: after two epochs with non-negative metrics, 0.pth and 1.pth
\* exist and the log has two lines; best.pth exists exactly when one of the
\* two metrics is strictly greater than 0.
C7_TwoEpochScenario ==
    (/\ pc = "done"
     /\ n_epochs = 2
     /\ ~use_qual
     /\ criterion = "CrossEntropyLoss"
     /\ \A i \in DOMAIN metrics : metrics[i] >= 0) =>
        /\ IsCheckpoint(EpochPath(0))
        /\ IsCheckpoint(EpochPath(1))
        /\ IsCheckpoint(BestPath) <=> (\E i \in DOMAIN metrics : metrics[i] > 0)
        /\ Len(log) = 2

\* C7 witness: the two-epoch scenario ended with metrics 0 and 1 and best.pth on disk.
C7_Witness ==
    /\ pc = "done"
    /\ n_epochs = 2
    /\ ~use_qual
    /\ criterion = "CrossEntropyLoss"
    /\ metrics = <<0, 1>>
    /\ IsCheckpoint(BestPath)

\* C8: only the optimizer step of train_epoch changes the parameters; what
\* <epoch>.pth holds, and what best.pth holds, are the parameters valid_epoch
\* scored in the epoch that wrote the file.
C8_ParamsOnlyByOptimizer ==
    /\ [][params' # params => pc = "train_batch" /\ pc' = "train_batch"]_vars
    /\ [](/\ Len(scored) > epoch => scored[epoch + 1] = params
          /\ \A i \in DOMAIN writes :
                files[writes[i].path].kind = "ckpt" /\ writes[i].path # BestPath
                    => files[writes[i].path].st_d = scored[writes[i].epoch + 1]
          /\ IsCheckpoint(BestPath) =>
                files[BestPath].st_d = scored[LastBestEpoch + 1])

\* C8 witness: epoch 1 wrote 1.pth and best.pth after two or more optimizer steps, both holding the scored parameters.
C8_Witness ==
    /\ pc = "write_log"
    /\ epoch = 1
    /\ params > 1
    /\ NumWrites(BestPath, 1) = 1
    /\ files[BestPath] = files[EpochPath(1)]
    /\ files[BestPath] = Checkpoint(scored[2])

\* C10: between epochs max_score is the largest of 0 and the metrics so far
\* and never below its earlier value; best.pth exists exactly when a metric
\* was above 0, and then holds the parameters of the first epoch whose metric
\* is max_score.
C10_MaxScoreAndBest ==
    /\ max_score >= prev_max
    /\ pc \in {"loop", "done"} =>
          /\ max_score = MaxOf(metrics, Len(metrics))
          /\ IsCheckpoint(BestPath) <=> (\E i \in DOMAIN metrics : metrics[i] > 0)
          /\ ~IsCheckpoint(BestPath) => files[BestPath] = Absent
          /\ IsCheckpoint(BestPath) =>
                files[BestPath] = Checkpoint(scored[EarliestBest + 1])

\* C10 witness: two consecutive epochs tie at a positive max_score; best.pth is not the current parameters.
C10_Witness ==
    /\ pc = "loop"
    /\ epoch >= 2
    /\ n_batches > 0
    /\ max_score > 0
    /\ metrics[epoch] = max_score
    /\ metrics[epoch - 1] = max_score
    /\ files[BestPath] # Checkpoint(params)

\* ------------------------------------------- valid_epoch() and validate()
\* The train() variables, parked.
TrainIdle ==
    /\ n_epochs = 0
    /\ n_batches = 0
    /\ is_cosine = FALSE
    /\ pc = "idle"
    /\ epoch = 0
    /\ batch = 0
    /\ params = 0
    /\ lr = 0
    /\ metric = 0
    /\ max_score = InitialMaxScore
    /\ prev_max = InitialMaxScore
    /\ tmp_lr = 0
    /\ files = [p \in Paths |-> Absent]
    /\ log = <<>>
    /\ sched_calls = <<>>
    /\ writes = <<>>
    /\ metrics = <<>>
    /\ scored = <<>>
    /\ lr_used = <<>>
    /\ train_calls = 0
    /\ err_at = "none"

\* What the model returns for an image: one row of two class outputs.
Outputs == {<<0, Scale>>, <<2 * Scale, 0>>}
\* One-hot primary labels.
Labels == {<<Scale, 0>>, <<0, Scale>>}
\* One example of a validation batch: the model's output on its image, its label.
Examples == [out : Outputs, t : Labels]
BatchSizes == {1, 2}
Batches == UNION {[1..n -> Examples] : n \in BatchSizes}
Loaders == UNION {[1..n -> Batches] : n \in 0..MaxValidBatches}

ValidInit ==
    /\ v_loader \in Loaders
    /\ use_qual \in BOOLEAN
    /\ criterion \in {"CrossEntropyLoss", "BCELoss"}
    /\ mode = "train"
    /\ v_pc = "start"
    /\ v_i = 0
    /\ preds0 = <<>>
    /\ true0 = <<>>
    /\ v_call = <<>>
    /\ v_ret = 0
    /\ TrainIdle
    /\ LossIdle

\* nn.functional.softmax(pred0, dim=1)[:, 0] on one row.
Softmax0(out) ==
    LET m  == IF out[1] > out[2] THEN out[1] ELSE out[2]
        e1 == ExpNeg(m - out[1])
        e2 == ExpNeg(m - out[2])
    IN  (Scale * e1) \div (e1 + e2)

\* pred0 = 1 - softmax(pred0)[:, 0]  /  1 - pred0[:, 0], on one row.
Score(c, out) ==
    IF c = "CrossEntropyLoss" THEN Scale - Softmax0(out) ELSE Scale - out[1]

\* 1 - t0, with t0 = t0[:, 0], on one row.
InvertLabel(t) == Scale - t[1]

\* The same, on every row of a batch.
BatchScores(c, b) == [i \in DOMAIN b |-> Score(c, b[i].out)]
BatchLabels(b) == [i \in DOMAIN b |-> InvertLabel(b[i].t)]

\* Mutant: the callable is given (predicts, labels).
ValidateArgsPredictsFirst(predicts, labels) == <<predicts, labels>>

\* validate(predicts, labels, single_metric): the arguments single_metric gets.
ValidateArgs(predicts, labels) == <<labels, predicts>>

\* model.eval(); model.to(device); preds0 = np.empty(0); true0 = np.empty(0)
ValidBegin ==
    /\ v_pc = "start"
    /\ mode' = "eval"
    /\ preds0' = <<>>
    /\ true0' = <<>>
    /\ v_i' = 0
    /\ v_pc' = "batches"
    /\ UNCHANGED <<v_loader, v_call, v_ret, use_qual, criterion>>
    /\ UNCHANGED <<trainVars, lossVars>>

\* One batch of the loader: forward without gradient, score, np.append.
ValidBatch ==
    /\ v_pc = "batches"
    /\ v_i < Len(v_loader)
    /\ preds0' = preds0 \o BatchScores(criterion, v_loader[v_i + 1])
    /\ true0' = true0 \o BatchLabels(v_loader[v_i + 1])
    /\ v_i' = v_i + 1
    /\ UNCHANGED <<v_pc, v_loader, v_call, v_ret, sharedVars>>
    /\ UNCHANGED <<trainVars, lossVars>>

\* return validate(preds0, true0, single_metric): the callable is called once
\* and what it returns is returned.
ValidReturn ==
    /\ v_pc = "batches"
    /\ v_i = Len(v_loader)
    /\ \E m \in Metrics :
          /\ v_call' = <<[args |-> ValidateArgs(preds0, true0), result |-> m]>>
          /\ v_ret' = m
    /\ v_pc' = "returned"
    /\ UNCHANGED <<v_loader, v_i, preds0, true0, sharedVars>>
    /\ UNCHANGED <<trainVars, lossVars>>

ValidNext ==
    \/ ValidBegin
    \/ ValidBatch
    \/ ValidReturn

SpecValid == ValidInit /\ [][ValidNext]_vars

RECURSIVE AllScores(_, _, _)
\* The scores of the first n batches of loader l, in order.
AllScores(c, l, n) ==
    IF n = 0 THEN <<>> ELSE AllScores(c, l, n - 1) \o BatchScores(c, l[n])

RECURSIVE AllLabels(_, _)
\* The inverted labels of the first n batches of loader l, in order.
AllLabels(l, n) ==
    IF n = 0 THEN <<>> ELSE AllLabels(l, n - 1) \o BatchLabels(l[n])

\* C4 as claimed: the callable is called once, with the scores of the whole
\* loader first and the inverted labels second, and its result is returned.
C4_Original_PredictionsFirst ==
    v_pc = "returned" =>
        /\ Len(v_call) = 1
        /\ v_call[1].args = <<AllScores(criterion, v_loader, Len(v_loader)),
                              AllLabels(v_loader, Len(v_loader))>>
        /\ v_ret = v_call[1].result

\* C4 as amended: the callable is called once, with the inverted labels of
\* the whole loader first and the scores second, and its result is returned.
C4_LabelsFirst ==
    v_pc = "returned" =>
        /\ Len(v_call) = 1
        /\ v_call[1].args = <<AllLabels(v_loader, Len(v_loader)),
                              AllScores(criterion, v_loader, Len(v_loader))>>
        /\ v_ret = v_call[1].result

\* C4 witness: valid_epoch returned over two batches in cross-entropy mode, labels and scores differing.
C4_Witness ==
    /\ v_pc = "returned"
    /\ Len(v_loader) = 2
    /\ criterion = "CrossEntropyLoss"
    /\ Len(v_call) = 1
    /\ Len(v_call[1].args[1]) >= 3
    /\ v_call[1].args[1] # v_call[1].args[2]
    /\ v_ret = 2

\* --------------------------------------------------- FocalLoss.forward()
\* Values of the logit tensor and of the target tensor; the gammas tried.
Logits == {0 - 2 * Scale, Scale}
Targets == {0, Scale \div 2, Scale, 2 * Scale}
Gammas == {0, Scale \div 2, 2 * Scale}
\* The shapes of the two-dimensional tensors tried: <<rows, columns>>.
Shapes2D == {<<1, 2>>, <<2, 1>>, <<2, 2>>}

\* One-dimensional tensors of up to MaxLen values drawn from S.
Tensors1D(S) == UNION {[1..n -> S] : n \in 0..MaxLen}
\* Two-dimensional tensors of the shapes tried.
Tensors2D(S) == UNION {[1..sh[1] -> [1..sh[2] -> S]] : sh \in Shapes2D}

\* logit and target have the same shape.
SameShape(a, b, d) ==
    /\ Len(a) = Len(b)
    /\ d = 2 => \A i \in DOMAIN a : Len(a[i]) = Len(b[i])

LossInit ==
    /\ gamma \in Gammas
    /\ f_dim \in {1, 2}
    /\ logit \in (IF f_dim = 1 THEN Tensors1D(Logits) ELSE Tensors2D(Logits))
    /\ target \in (IF f_dim = 1 THEN Tensors1D(Targets) ELSE Tensors2D(Targets))
    /\ SameShape(logit, target, f_dim)
    /\ f_pc = "start"
    /\ f_loss = <<>>
    /\ f_out = [kind |-> "none"]
    /\ use_qual = TRUE
    /\ criterion = "CrossEntropyLoss"
    /\ mode = "train"
    /\ TrainIdle
    /\ ValidIdle

\* max_val = (-logit).clamp(min=0)
MaxVal(x) == IF 0 - x > 0 THEN 0 - x ELSE 0

\* Mutant: the first two terms the other way round.
ElemLossSwapped(x, t) ==
    Mul(x, t) - x + MaxVal(x) + Ln(ExpNeg(MaxVal(x)) + ExpNeg(x + MaxVal(x)))

\* logit - logit * target + max_val
\*     + ((-max_val).exp() + (-logit - max_val).exp()).log(), on one element.
ElemLoss(x, t) ==
    x - Mul(x, t) + MaxVal(x) + Ln(ExpNeg(MaxVal(x)) + ExpNeg(x + MaxVal(x)))

\* torch.nn.functional.logsigmoid(z) = min(z, 0) - log(1 + exp(-|z|))
LogSigmoid(z) ==
    (IF z < 0 THEN z ELSE 0) - Ln(Scale + ExpNeg(IF z < 0 THEN 0 - z ELSE z))

\* invprobs = logsigmoid(-logit * (target * 2.0 - 1.0)), on one element.
InvProbs(x, t) == LogSigmoid(Mul(0 - x, Mul(t, 2 * Scale) - Scale))

\* (invprobs * self.gamma).exp() * loss, on one element with loss l.
Modulated(x, t, g, l) == Mul(ExpNeg(0 - Mul(InvProbs(x, t), g)), l)

RECURSIVE SumSeq(_, _)
\* The sum of the first n elements of s.
SumSeq(s, n) == IF n = 0 THEN 0 ELSE SumSeq(s, n - 1) + s[n]

NaN == [kind |-> "nan"]
Num(v) == [kind |-> "num", val |-> v]

\* loss.mean() of a one-dimensional tensor: nan when it is empty.
Mean(s) == IF Len(s) = 0 THEN NaN ELSE Num(SumSeq(s, Len(s)) \div Len(s))

\* target = target.float(); the cross-entropy with logits, element by element.
FocalBCE ==
    /\ f_pc = "start"
    /\ f_loss' = IF f_dim = 1
                   THEN [i \in DOMAIN logit |-> ElemLoss(logit[i], target[i])]
                   ELSE [i \in DOMAIN logit |->
                           [j \in DOMAIN logit[i] |-> ElemLoss(logit[i][j], target[i][j])]]
    /\ f_pc' = "bce"
    /\ UNCHANGED <<gamma, f_dim, logit, target, f_out>>
    /\ UNCHANGED <<trainVars, sharedVars, validVars>>

\* invprobs; loss = (invprobs * self.gamma).exp() * loss
FocalModulate ==
    /\ f_pc = "bce"
    /\ f_loss' = IF f_dim = 1
                   THEN [i \in DOMAIN logit |->
                           Modulated(logit[i], target[i], gamma, f_loss[i])]
                   ELSE [i \in DOMAIN logit |->
                           [j \in DOMAIN logit[i] |->
                              Modulated(logit[i][j], target[i][j], gamma, f_loss[i][j])]]
    /\ f_pc' = "modulated"
    /\ UNCHANGED <<gamma, f_dim, logit, target, f_out>>
    /\ UNCHANGED <<trainVars, sharedVars, validVars>>

\* if len(loss.size()) == 2: loss = loss.sum(dim=1); return loss.mean()
FocalReduce ==
    /\ f_pc = "modulated"
    /\ f_out' = IF f_dim = 2
                  THEN Mean([i \in DOMAIN f_loss |-> SumSeq(f_loss[i], Len(f_loss[i]))])
                  ELSE Mean(f_loss)
    /\ f_pc' = "returned"
    /\ UNCHANGED <<gamma, f_dim, logit, target, f_loss>>
    /\ UNCHANGED <<trainVars, sharedVars, validVars>>

LossNext ==
    \/ FocalBCE
    \/ FocalModulate
    \/ FocalReduce

SpecLoss == LossInit /\ [][LossNext]_vars

\* Every value of tensor t (of dimension d) is between 0 and 1.
InUnitInterval(t, d) ==
    IF d = 1
      THEN \A i \in DOMAIN t : 0 <= t[i] /\ t[i] <= Scale
      ELSE \A i \in DOMAIN t : \A j \in DOMAIN t[i] : 0 <= t[i][j] /\ t[i][j] <= Scale

\* C9 as claimed: for every gamma >= 0 and every logit and target of the same
\* shape, forward returns a number that is not negative.
C9_Original_NonNegative ==
    f_pc = "returned" => f_out.kind = "num" /\ f_out.val >= 0

\* C9 as amended: for every gamma >= 0, every non-empty logit tensor and
\* every target of the same shape whose values lie in [0, 1], forward
\* returns a number that is not negative.
C9_NonNegativeOnUnitTargets ==
    (/\ f_pc = "returned"
     /\ gamma >= 0
     /\ Len(logit) > 0
     /\ InUnitInterval(target, f_dim)) =>
        f_out.kind = "num" /\ f_out.val >= 0

\* C9 witness: a two-row tensor with a target of 1/2 on a negative logit, gamma 2, a positive loss returned.
C9_Witness ==
    /\ f_pc = "returned"
    /\ f_dim = 2
    /\ gamma = 2 * Scale
    /\ Len(logit) = 2
    /\ InUnitInterval(target, f_dim)
    /\ target[1][1] = Scale \div 2
    /\ logit[1][1] < 0
    /\ f_out.kind = "num"
    /\ f_out.val > 0

====
